---------------------------- MODULE Spec2Model ----------------------------
(***************************************************************************)
(* Model of the NovaRegistry json validators (src/src/index.ts):           *)
(* isPackageExport, isPackageAuthor, isPackage, isTagValid and             *)
(* isRemotePackage.  Each validator is a synchronous function of an        *)
(* untyped JavaScript value; it returns a boolean and writes diagnostics   *)
(* to the logger.  A behaviour of the model is one call: Init draws the    *)
(* function and its argument, the Call action runs the whole function.     *)
(***************************************************************************)
EXTENDS Integers, Sequences, FiniteSets, TLC

VARIABLES fn, arg, pc, ret, log, trace

vars == <<fn, arg, pc, ret, log, trace>>

(***************************************************************************)
(* Bounds of the model.                                                    *)
(***************************************************************************)
MaxVersions == 2    \* most entries in a versions map
MaxTags     == 2    \* most entries in a tags map

(***************************************************************************)
(* JavaScript values.  A value is a record [t, v]: t is the runtime type   *)
(* tag and v the payload.  An object's payload is the sequence of its own  *)
(* enumerable entries <<key, value>> in insertion order, which is the      *)
(* order Object.entries walks them in.                                     *)
(***************************************************************************)
Undefined == [t |-> "undefined", v |-> 0]
Null      == [t |-> "null", v |-> 0]
Num(n)    == [t |-> "number", v |-> n]
Bool(b)   == [t |-> "boolean", v |-> b]
Str(s)    == [t |-> "string", v |-> s]
Obj(es)   == [t |-> "object", v |-> es]
Fn        == [t |-> "function", v |-> 0]

\* typeof x; typeof null is "object"
TypeOf(x) == IF x.t = "null" THEN "object" ELSE x.t

\* ToBoolean(x), the test behind !x
Truthy(x) ==
    CASE x.t = "undefined" -> FALSE
      [] x.t = "null"      -> FALSE
      [] x.t = "number"    -> x.v # 0
      [] x.t = "boolean"   -> x.v
      [] x.t = "string"    -> x.v # ""
      [] OTHER             -> TRUE

\* x != null (loose): false for null and undefined only
NotNullish(x) == x.t # "null" /\ x.t # "undefined"

\* names every plain object inherits from Object.prototype
ObjectPrototypeKeys ==
    {"constructor", "toString", "toLocaleString", "valueOf", "hasOwnProperty",
     "isPrototypeOf", "propertyIsEnumerable", "__proto__"}

\* keys of the own entries of an object
OwnKeys(o) == {o.v[i][1] : i \in 1..Len(o.v)}

\* o[key]: the own entry if there is one, else what the prototype chain gives
Get(o, key) ==
    IF key \in OwnKeys(o)
    THEN LET i == CHOOSE j \in 1..Len(o.v) : o.v[j][1] = key IN o.v[i][2]
    ELSE IF key = "__proto__" THEN Obj(<<>>)
    ELSE IF key \in ObjectPrototypeKeys THEN Fn
    ELSE Undefined

(***************************************************************************)
(* Strings.  Char(s, i) is the i-th character of s.                        *)
(***************************************************************************)
Char(s, i) == SubSeq(s, i, i)

Digits  == {"0", "1", "2", "3", "4", "5", "6", "7", "8", "9"}
Lowers  == {"a", "b", "c", "d", "e", "f", "g", "h", "i", "j", "k", "l", "m",
            "n", "o", "p", "q", "r", "s", "t", "u", "v", "w", "x", "y", "z"}
Uppers  == {"A", "B", "C", "D", "E", "F", "G", "H", "I", "J", "K", "L", "M",
            "N", "O", "P", "Q", "R", "S", "T", "U", "V", "W", "X", "Y", "Z"}
Spaces  == {" "}

UpperSeq == "ABCDEFGHIJKLMNOPQRSTUVWXYZ"
LowerSeq == "abcdefghijklmnopqrstuvwxyz"

LowerChar(c) ==
    IF c \in Uppers
    THEN Char(LowerSeq, CHOOSE i \in 1..26 : Char(UpperSeq, i) = c)
    ELSE c

RECURSIVE toLowerCase(_)
toLowerCase(s) ==
    IF s = "" THEN ""
    ELSE LowerChar(Char(s, 1)) \o toLowerCase(SubSeq(s, 2, Len(s)))

RECURSIVE trim(_)
trim(s) ==
    IF s = "" THEN ""
    ELSE IF Char(s, 1) \in Spaces THEN trim(SubSeq(s, 2, Len(s)))
    ELSE IF Char(s, Len(s)) \in Spaces THEN trim(SubSeq(s, 1, Len(s) - 1))
    ELSE s

\* position of the first occurrence of character c in s, 0 if none
IndexOf(s, c) ==
    IF \E i \in 1..Len(s) : Char(s, i) = c
    THEN CHOOSE i \in 1..Len(s) :
            Char(s, i) = c /\ \A j \in 1..(i - 1) : Char(s, j) # c
    ELSE 0

\* s split at every "." (as a sequence of strings)
RECURSIVE SplitDots(_)
SplitDots(s) ==
    LET i == IndexOf(s, ".") IN
    IF i = 0 THEN <<s>>
    ELSE <<SubSeq(s, 1, i - 1)>> \o SplitDots(SubSeq(s, i + 1, Len(s)))

AllIn(s, chars) == \A i \in 1..Len(s) : Char(s, i) \in chars

\* The grammar semver.valid matches a version against (strict mode):
\*   numeric identifier      "0", or digits with no leading zero
\*   non-numeric identifier  letters, digits and hyphens, at least one non-digit
\*   main version            three numeric identifiers joined by "."
\*   prerelease              "-" then identifiers joined by "."
\*   build                   "+" then non-empty runs of [0-9A-Za-z-] joined by "."
\*   full                    optional "v", main version, optional prerelease,
\*                           optional build, anchored at both ends
IdChars == Digits \cup Lowers \cup Uppers \cup {"-"}

NumericIdentifier(s) ==
    /\ s # ""
    /\ AllIn(s, Digits)
    /\ (Len(s) > 1 => Char(s, 1) # "0")

NonNumericIdentifier(s) ==
    /\ s # ""
    /\ AllIn(s, IdChars)
    /\ ~AllIn(s, Digits)

BuildIdentifier(s) == s # "" /\ AllIn(s, IdChars)

MainVersion(s) ==
    LET p == SplitDots(s) IN
    Len(p) = 3 /\ \A i \in 1..3 : NumericIdentifier(p[i])

PreRelease(s) ==
    LET p == SplitDots(s) IN
    \A i \in 1..Len(p) : NumericIdentifier(p[i]) \/ NonNumericIdentifier(p[i])

Build(s) ==
    LET p == SplitDots(s) IN \A i \in 1..Len(p) : BuildIdentifier(p[i])

\* MAINVERSION PRERELEASE? BUILD?  (SemVer 2.0.0, no prefix)
SemVerPlain(s) ==
    LET b    == IndexOf(s, "+")
        core == IF b = 0 THEN s ELSE SubSeq(s, 1, b - 1)
        h    == IndexOf(core, "-")
        main == IF h = 0 THEN core ELSE SubSeq(core, 1, h - 1)
    IN  /\ MainVersion(main)
        /\ (h # 0 => PreRelease(SubSeq(core, h + 1, Len(core))))
        /\ (b # 0 => Build(SubSeq(s, b + 1, Len(s))))

FullPlain(s) ==
    IF s # "" /\ Char(s, 1) = "v"
    THEN SemVerPlain(SubSeq(s, 2, Len(s)))
    ELSE SemVerPlain(s)

\* semver.valid(version) is non-null: the trimmed string matches FULL
semverValid(s) == FullPlain(trim(s))

(***************************************************************************)
(* Validators.  Each returns [ok, log, trace]: the boolean it returns, the *)
(* diagnostics it passed to logger.err, in order, and the calls it made to *)
(* isPackage on version entries and to isTagValid on tags, in order.       *)
(***************************************************************************)
Pass == [ok |-> TRUE, log |-> <<>>, trace |-> <<>>]

\* logger.err(msg, ...) followed by return false
Fail(msg) == [ok |-> FALSE, log |-> <<msg>>, trace |-> <<>>]

\* if (!r) { logger.err(msg); return false; } for the result r of a call
OrLog(r, msg) ==
    IF r.ok THEN r
    ELSE [ok |-> FALSE, log |-> r.log \o <<msg>>, trace |-> r.trace]

\* sequencing: r ran first; if it failed the function has returned with it,
\* otherwise next runs after it
AndThen(r, next) ==
    IF r.ok
    THEN [ok |-> next.ok, log |-> r.log \o next.log, trace |-> r.trace \o next.trace]
    ELSE r

\* one validator call made while walking versions or tags
Event(ev, by, key, ok) == [ev |-> ev, by |-> by, key |-> key, ok |-> ok]

\* the result r of the call ev(key) made by the function by, recorded
Called(r, ev, by, key) ==
    [ok |-> r.ok, log |-> r.log, trace |-> <<Event(ev, by, key, r.ok)>> \o r.trace]

\* Object.entries(o) of an object: its own entries in insertion order
Entries(o) == o.v

isPackageExport(x) ==
    IF ~Truthy(x) \/ TypeOf(x) # "object"
    THEN Fail("Invalid PackageExport: not an object.")
    ELSE LET main  == Get(x, "main")
             types == Get(x, "types")
         IN  IF ~Truthy(main) \/ TypeOf(main) # "string"
             THEN Fail("Invalid PackageExport.main: expected string, got:")
             ELSE IF NotNullish(types) /\ TypeOf(types) # "string"
             THEN Fail("Invalid PackageExport.types: expected string or null, got:")
             ELSE Pass

\* isPackageAuthor with the url check (lines 68-71) left out
isPackageAuthor_NoUrlCheck(x) ==
    IF ~Truthy(x) \/ TypeOf(x) # "object"
    THEN Fail("Invalid PackageAuthor: not an object.")
    ELSE LET name  == Get(x, "name")
             email == Get(x, "email")
         IN  IF ~Truthy(name) \/ TypeOf(name) # "string"
             THEN Fail("Invalid PackageAuthor.name: expected string, got:")
             ELSE IF NotNullish(email) /\ TypeOf(email) # "string"
             THEN Fail("Invalid PackageAuthor.email: expected string or null, got:")
             ELSE Pass

isPackageAuthor(x) ==
    IF ~Truthy(x) \/ TypeOf(x) # "object"
    THEN Fail("Invalid PackageAuthor: not an object.")
    ELSE LET name  == Get(x, "name")
             email == Get(x, "email")
             url   == Get(x, "url")
         IN  IF ~Truthy(name) \/ TypeOf(name) # "string"
             THEN Fail("Invalid PackageAuthor.name: expected string, got:")
             ELSE IF NotNullish(email) /\ TypeOf(email) # "string"
             THEN Fail("Invalid PackageAuthor.email: expected string or null, got:")
             ELSE IF NotNullish(url) /\ TypeOf(url) # "string"
             THEN Fail("Invalid PackageAuthor.url: expected string or null, got:")
             ELSE Pass

\* for (const [key, value] of Object.entries(maintainers)), from entry i on;
\* typeof key is always "string" for a key Object.entries yields
RECURSIVE maintainersLoop(_, _)
maintainersLoop(es, i) ==
    IF i > Len(es) THEN Pass
    ELSE AndThen(OrLog(isPackageAuthor(es[i][2]), "Invalid maintainer entry for key"),
                 maintainersLoop(es, i + 1))

\* for (const [key, value] of Object.entries(exports)), from entry i on
RECURSIVE exportsLoop(_, _)
exportsLoop(es, i) ==
    IF i > Len(es) THEN Pass
    ELSE AndThen(OrLog(isPackageExport(es[i][2]), "Invalid PackageExport for key"),
                 exportsLoop(es, i + 1))

isPackage(x) ==
    IF ~Truthy(x) \/ TypeOf(x) # "object"
    THEN Fail("Invalid Package: not an object.")
    ELSE
    LET name        == Get(x, "name")
        version     == Get(x, "version")
        description == Get(x, "description")
        author      == Get(x, "author")
        maintainers == Get(x, "maintainers")
        exports     == Get(x, "exports")
    IN
    IF ~Truthy(name) \/ TypeOf(name) # "string" \/ toLowerCase(name.v) # name.v
    THEN Fail("Invalid Package.name: expected lowercase string, got:")
    ELSE IF ~Truthy(version) \/ TypeOf(version) # "string" \/ ~semverValid(version.v)
    THEN Fail("Invalid Package.version: not a valid semver string, got:")
    ELSE IF TypeOf(description) # "string"
    THEN Fail("Invalid Package.description: expected string, got:")
    ELSE IF ~Truthy(author) \/ TypeOf(author) # "object"
    THEN Fail("Invalid Package.author.")
    ELSE
    AndThen(OrLog(isPackageAuthor(author), "Invalid Package.author."),
    AndThen(IF ~NotNullish(maintainers) THEN Pass
            ELSE IF TypeOf(maintainers) # "object"
            THEN Fail("Invalid Package.maintainers: expected object or null, got:")
            ELSE maintainersLoop(Entries(maintainers), 1),
            IF ~Truthy(exports) \/ TypeOf(exports) # "object"
            THEN Fail("Invalid Package.exports: expected object, got:")
            ELSE exportsLoop(Entries(exports), 1)))

\* isTagValid's walk: for (const [key, value] of entries), from entry i on;
\* a manifest that fails returns false with no diagnostic of its own
RECURSIVE tagEntriesLoop(_, _)
tagEntriesLoop(es, i) ==
    IF i > Len(es) THEN Pass
    ELSE AndThen(Called(isPackage(es[i][2]), "isPackage", "isTagValid", es[i][1]),
                 tagEntriesLoop(es, i + 1))

\* if (versions[tag]) return true; return false;
tagLookup(tag, versions) ==
    [ok |-> Truthy(Get(versions, tag.v)), log |-> <<>>, trace |-> <<>>]

\* isTagValid validating only the manifest the tag points at
isTagValid_OnlyTagged(tag, versions) ==
    IF ~Truthy(tag) \/ TypeOf(tag) # "string"
    THEN Fail("Invalid Parameter 'tag': not a string.")
    ELSE IF ~Truthy(versions) \/ TypeOf(versions) # "object"
    THEN Fail("Invalid Parameter 'versions': not a StringMap of Packages")
    ELSE IF tag.v \notin OwnKeys(versions)
    THEN tagLookup(tag, versions)
    ELSE Called(isPackage(Get(versions, tag.v)), "isPackage", "isTagValid", tag.v)

\* isTagValid as a pure membership lookup, with no walk over versions
isTagValid_LookupOnly(tag, versions) ==
    IF ~Truthy(tag) \/ TypeOf(tag) # "string"
    THEN Fail("Invalid Parameter 'tag': not a string.")
    ELSE IF ~Truthy(versions) \/ TypeOf(versions) # "object"
    THEN Fail("Invalid Parameter 'versions': not a StringMap of Packages")
    ELSE tagLookup(tag, versions)

isTagValid(tag, versions) ==
    IF ~Truthy(tag) \/ TypeOf(tag) # "string"
    THEN Fail("Invalid Parameter 'tag': not a string.")
    ELSE IF ~Truthy(versions) \/ TypeOf(versions) # "object"
    THEN Fail("Invalid Parameter 'versions': not a StringMap of Packages")
    ELSE AndThen(tagEntriesLoop(Entries(versions), 1), tagLookup(tag, versions))

\* isRemotePackage's first pass over versions, from entry i on
RECURSIVE versionsLoop(_, _)
versionsLoop(es, i) ==
    IF i > Len(es) THEN Pass
    ELSE AndThen(OrLog(Called(isPackage(es[i][2]), "isPackage", "isRemotePackage", es[i][1]),
                       "Invalid RemotePackage version"),
                 versionsLoop(es, i + 1))

\* isRemotePackage's pass over tags, from entry i on
RECURSIVE tagsLoop(_, _, _)
tagsLoop(es, i, versions) ==
    IF i > Len(es) THEN Pass
    ELSE AndThen(IF TypeOf(es[i][2]) # "string"
                 THEN Fail("Invalid RemotePackage tag")
                 ELSE OrLog(Called(isTagValid(es[i][2], versions),
                                   "isTagValid", "isRemotePackage", es[i][2].v),
                            "Invalid RemotePackage tag"),
                 tagsLoop(es, i + 1, versions))

\* lines 206-216: the versions step
versionsStep(versions) ==
    IF ~Truthy(versions) \/ TypeOf(versions) # "object"
    THEN Fail("Invalid RemotePackage.versions: expected object, got:")
    ELSE versionsLoop(Entries(versions), 1)

\* lines 218-228: the tags step
tagsStep(tags, versions) ==
    IF ~Truthy(tags) \/ TypeOf(tags) # "object"
    THEN Fail("Invalid RemotePackage.tags: expected object, got:")
    ELSE tagsLoop(Entries(tags), 1, versions)

\* isRemotePackage with the tags step run before the versions step
isRemotePackage_TagsFirst(x) ==
    IF ~Truthy(x) \/ TypeOf(x) # "object"
    THEN Fail("Invalid RemotePackage: not an object.")
    ELSE
    LET id       == Get(x, "id")
        name     == Get(x, "name")
        author   == Get(x, "author")
        tags     == Get(x, "tags")
        versions == Get(x, "versions")
    IN
    IF ~Truthy(id) \/ TypeOf(id) # "string"
    THEN Fail("Invalid RemotePackage.id: expected string, got:")
    ELSE IF ~Truthy(name) \/ TypeOf(name) # "string"
    THEN Fail("Invalid RemotePackage.name: expected string, got:")
    ELSE IF ~Truthy(author) \/ TypeOf(author) # "object"
    THEN Fail("Invalid RemotePackage.author.")
    ELSE
    AndThen(OrLog(isPackageAuthor(author), "Invalid RemotePackage.author."),
    AndThen(tagsStep(tags, versions),
            versionsStep(versions)))

isRemotePackage(x) ==
    IF ~Truthy(x) \/ TypeOf(x) # "object"
    THEN Fail("Invalid RemotePackage: not an object.")
    ELSE
    LET id       == Get(x, "id")
        name     == Get(x, "name")
        author   == Get(x, "author")
        tags     == Get(x, "tags")
        versions == Get(x, "versions")
    IN
    IF ~Truthy(id) \/ TypeOf(id) # "string"
    THEN Fail("Invalid RemotePackage.id: expected string, got:")
    ELSE IF ~Truthy(name) \/ TypeOf(name) # "string"
    THEN Fail("Invalid RemotePackage.name: expected string, got:")
    ELSE IF ~Truthy(author) \/ TypeOf(author) # "object"
    THEN Fail("Invalid RemotePackage.author.")
    ELSE
    AndThen(OrLog(isPackageAuthor(author), "Invalid RemotePackage.author."),
    AndThen(versionsStep(versions),
            tagsStep(tags, versions)))

(***************************************************************************)
(* Inputs.  Absent marks a property the object literal leaves out.         *)
(***************************************************************************)
Absent == [t |-> "absent", v |-> 0]

Field(k, val) == IF val.t = "absent" THEN <<>> ELSE << <<k, val>> >>

\* sequences of at most n distinct keys of K
KeySeqs(K, n) ==
    UNION {{ks \in [1..m -> K] : \A i, j \in 1..m : i # j => ks[i] # ks[j]}
           : m \in 0..n}

\* objects with at most n entries, keys of K, values of V
Maps(K, V, n) ==
    UNION {{Obj([i \in 1..Len(ks) |-> <<ks[i], vs[i]>>]) : vs \in [1..Len(ks) -> V]}
           : ks \in KeySeqs(K, n)}

Optionals ==
    {Absent, Undefined, Null, Str("a@b.c"), Str(""), Num(5), Bool(TRUE), Obj(<<>>)}

NonObjects == {Undefined, Null, Num(1), Str("x")}

MkExport(main, types) == Obj(Field("main", main) \o Field("types", types))

ExportInputs ==
    NonObjects \cup
    {MkExport(m, t) : m \in {Absent, Str("index.js"), Str(""), Num(1), Null},
                      t \in Optionals}

MkAuthor(name, email, url) ==
    Obj(Field("name", name) \o Field("email", email) \o Field("url", url))

AuthorInputs ==
    NonObjects \cup
    {MkAuthor(n, e, u) : n \in {Absent, Str("alice"), Str(""), Num(7), Null},
                         e \in Optionals, u \in Optionals}

ValidAuthor  == MkAuthor(Str("alice"), Absent, Absent)
ValidExports == Obj(<< <<".", MkExport(Str("index.js"), Absent)>> >>)

MkPackage(name, version, description, author, maintainers, exports) ==
    Obj(Field("name", name) \o Field("version", version)
        \o Field("description", description) \o Field("author", author)
        \o Field("maintainers", maintainers) \o Field("exports", exports))

PkgNames        == {Absent, Str("left-pad"), Str("Foo"), Str(""), Num(3)}
PkgVersions     == {Absent, Str("1.0.0"), Str("1.0.0-alpha.1"), Str("1.0"),
                    Str("v1.0.0"), Str("1.0.0-"), Str("01.0.0"),
                    Str("1.0.0+build.5"), Str(""), Num(1)}
PkgDescriptions == {Absent, Str(""), Str("pads"), Num(0)}
PkgAuthors      == {Absent, ValidAuthor, MkAuthor(Str("bob"), Null, Str("u")),
                    MkAuthor(Str("bob"), Num(5), Absent), Str("alice")}
PkgMaintainers  == {Absent, Null, Obj(<< <<"m1", ValidAuthor>> >>),
                    Obj(<< <<"m1", ValidAuthor>>, <<"m2", MkAuthor(Absent, Absent, Absent)>> >>),
                    Str("x")}
PkgExports      == {Absent, Obj(<<>>), ValidExports,
                    Obj(<< <<".", MkExport(Str("index.js"), Absent)>>,
                           <<"./x", MkExport(Num(1), Absent)>> >>),
                    Str("x")}

PackageInputs ==
    NonObjects \cup
    {MkPackage(n, v, d, a, m, e) :
        n \in PkgNames, v \in PkgVersions, d \in PkgDescriptions,
        a \in PkgAuthors, m \in PkgMaintainers, e \in PkgExports}

ValidPackage ==
    MkPackage(Str("left-pad"), Str("1.0.0"), Str(""), ValidAuthor, Absent, ValidExports)
BadPackage ==
    MkPackage(Str("Left-Pad"), Str("1.0.0"), Str(""), ValidAuthor, Absent, ValidExports)

VersionKeys   == {"1.0.0", "2.0.0", "3.0.0-rc.1"}
VersionValues == {ValidPackage, BadPackage}
VersionsInputs ==
    {Undefined, Null, Str("x")} \cup Maps(VersionKeys, VersionValues, MaxVersions)

TagInputs == {Str("1.0.0"), Str("2.0.0"), Str("9.9.9"), Str("toString"),
              Str(""), Num(1), Undefined}

TagValidInputs == [tag : TagInputs, versions : VersionsInputs]

TagKeys   == {"latest", "beta", "next"}
TagValues == {Str("1.0.0"), Str("2.0.0"), Str("9.9.9"), Str("toString"),
              Str(""), Num(1)}
TagsInputs == {Undefined, Null} \cup Maps(TagKeys, TagValues, MaxTags)

MkRemote(id, name, author, tags, versions) ==
    Obj(Field("id", id) \o Field("name", name) \o Field("author", author)
        \o Field("tags", tags) \o Field("versions", versions))

OneVersion == Obj(<< <<"1.0.0", ValidPackage>> >>)
LatestTag  == Obj(<< <<"latest", Str("1.0.0")>> >>)

RemoteInputs ==
    NonObjects
    \cup {MkRemote(Str("abc123"), Str("left-pad"), ValidAuthor, t, v) :
            t \in TagsInputs \cup {Absent}, v \in VersionsInputs \cup {Absent}}
    \cup {MkRemote(i, n, a, t, v) :
            i \in {Absent, Str("abc123"), Str(""), Num(1)},
            n \in {Absent, Str("left-pad"), Str(""), Null},
            a \in {Absent, ValidAuthor, MkAuthor(Str("bob"), Num(5), Absent), Str("alice")},
            t \in {LatestTag, Null},
            v \in {OneVersion, Obj(<< <<"1.0.0", BadPackage>> >>)}}

(***************************************************************************)
(* One call.  Init draws the validator and its argument; the Call action   *)
(* of that validator runs it to its return.                                *)
(***************************************************************************)
Init ==
    /\ pc = "ready"
    /\ ret = FALSE
    /\ log = <<>>
    /\ trace = <<>>
    /\ \/ fn = "isPackageExport" /\ arg \in ExportInputs
       \/ fn = "isPackageAuthor" /\ arg \in AuthorInputs
       \/ fn = "isPackage"       /\ arg \in PackageInputs
       \/ fn = "isTagValid"      /\ arg \in TagValidInputs
       \/ fn = "isRemotePackage" /\ arg \in RemoteInputs

Return(r) ==
    /\ ret' = r.ok
    /\ log' = r.log
    /\ trace' = r.trace
    /\ pc' = "done"
    /\ UNCHANGED <<fn, arg>>

CallIsPackageExport ==
    pc = "ready" /\ fn = "isPackageExport" /\ Return(isPackageExport(arg))

CallIsPackageAuthor ==
    pc = "ready" /\ fn = "isPackageAuthor" /\ Return(isPackageAuthor(arg))

CallIsPackage ==
    pc = "ready" /\ fn = "isPackage" /\ Return(isPackage(arg))

CallIsTagValid ==
    pc = "ready" /\ fn = "isTagValid" /\ Return(isTagValid(arg.tag, arg.versions))

CallIsRemotePackage ==
    pc = "ready" /\ fn = "isRemotePackage" /\ Return(isRemotePackage(arg))

Next ==
    \/ CallIsPackageExport
    \/ CallIsPackageAuthor
    \/ CallIsPackage
    \/ CallIsTagValid
    \/ CallIsRemotePackage

Spec == Init /\ [][Next]_vars

Done(f) == pc = "done" /\ fn = f

(***************************************************************************)
(* Vocabulary of the properties.                                           *)
(***************************************************************************)
IsObject(x)    == x.t = "object"
IsString(x)    == x.t = "string"
NonEmptyStr(x) == x.t = "string" /\ x.v # ""
HasOwn(o, k)   == k \in OwnKeys(o)
Values(o)      == {o.v[i][2] : i \in 1..Len(o.v)}

\* the own property k of o, Absent if o has none
Own(o, k) == IF HasOwn(o, k) THEN Get(o, k) ELSE Absent

\* absent, null (or undefined), or a string
OptionalString(x) == x.t \in {"absent", "undefined", "null", "string"}

\* number of events of trace that satisfy Test
CountEv(tr, Test(_)) == Cardinality({i \in 1..Len(tr) : Test(tr[i])})

IsPkgEv(e)      == e.ev = "isPackage"
IsTagEv(e)      == e.ev = "isTagValid"
IsFirstPassEv(e) == e.ev = "isPackage" /\ e.by = "isRemotePackage"
IsRewalkEv(e)   == e.ev = "isPackage" /\ e.by = "isTagValid"
\* a tag check that gets past its parameter checks and walks the map
IsWalkingTagEv(e) == e.ev = "isTagValid" /\ e.key # ""

RVersions == Get(arg, "versions")
RTags     == Get(arg, "tags")

\* C1: whenever isRemotePackage returns true, every value in tags is a key
\* present in versions and every value of versions satisfies isPackage.
C1_TagReferentialIntegrity ==
    (Done("isRemotePackage") /\ ret) =>
        /\ \A v \in Values(RVersions) : isPackage(v).ok
        /\ \A t \in Values(RTags) : IsString(t) /\ HasOwn(RVersions, t.v)

\* C2: isRemotePackage returns true only if tags contains the key latest.
C2_LatestMandatory ==
    (Done("isRemotePackage") /\ ret) => HasOwn(RTags, "latest")

\* C3: for a non-empty string tag and an object-like versions whose values
\* all satisfy isPackage, isTagValid returns true iff versions contains a key
\* equal to tag (an inherited name is not a contained key).
C3_TagValidIffKey ==
    (/\ Done("isTagValid")
     /\ NonEmptyStr(arg.tag)
     /\ IsObject(arg.versions)
     /\ \A v \in Values(arg.versions) : isPackage(v).ok)
    => (ret <=> HasOwn(arg.versions, arg.tag.v))

\* C4: if any single value in versions fails isPackage, isTagValid returns
\* false for every tag, also one that is the key of a valid entry.
C4_PoisonedVersions ==
    (/\ Done("isTagValid")
     /\ IsObject(arg.versions)
     /\ \E v \in Values(arg.versions) : ~isPackage(v).ok)
    => ~ret

C4_Witness ==
    /\ Done("isTagValid")
    /\ IsObject(arg.versions)
    /\ NonEmptyStr(arg.tag)
    /\ HasOwn(arg.versions, arg.tag.v)
    /\ isPackage(Get(arg.versions, arg.tag.v)).ok
    /\ \E v \in Values(arg.versions) : ~isPackage(v).ok
    /\ ~ret

\* the field constraints of a manifest as the specification words them
NameConstraint(x)    == IsString(Own(x, "name"))
                        /\ toLowerCase(Own(x, "name").v) = Own(x, "name").v
VersionConstraint(x) == IsString(Own(x, "version"))
                        /\ SemVerPlain(Own(x, "version").v)
DescriptionConstraint(x) == IsString(Own(x, "description"))
AuthorConstraint(x)  == isPackageAuthor(Own(x, "author")).ok
MaintainersConstraint(x) ==
    \/ Own(x, "maintainers").t \in {"absent", "undefined", "null"}
    \/ /\ IsObject(Own(x, "maintainers"))
       /\ \A m \in Values(Own(x, "maintainers")) : isPackageAuthor(m).ok
ExportsConstraint(x) ==
    /\ IsObject(Own(x, "exports"))
    /\ \A e \in Values(Own(x, "exports")) : isPackageExport(e).ok

PackageConstraints(x) ==
    /\ IsObject(x)
    /\ NameConstraint(x)
    /\ VersionConstraint(x)
    /\ DescriptionConstraint(x)
    /\ AuthorConstraint(x)
    /\ MaintainersConstraint(x)
    /\ ExportsConstraint(x)

\* C5: isPackage(x) is true if and only if every field constraint holds:
\* name a string equal to its lowercase form, version a string that is valid
\* SemVer, description a string, author a PackageAuthor, maintainers absent,
\* null or a map of PackageAuthors, exports a map of PackageExports.
C5_IsPackageIffConstraints ==
    Done("isPackage") => (ret <=> PackageConstraints(arg))

\* C6: every call of a validator that returns false has emitted at least one
\* diagnostic during that call.
C6_EveryFailureLogged ==
    (pc = "done" /\ ~ret) => Len(log) >= 1

WithVersion(v) ==
    MkPackage(Str("left-pad"), Str(v), Str(""), ValidAuthor, Absent, ValidExports)

\* C7: with every other field valid, isPackage accepts version "1.0.0" and
\* "1.0.0-alpha.1" and rejects "1.0", "v1.0.0" and "1.0.0-".
C7_SemVerBoundary ==
    Done("isPackage") =>
        /\ \A v \in {"1.0.0", "1.0.0-alpha.1"} : arg = WithVersion(v) => ret
        /\ \A v \in {"1.0", "v1.0.0", "1.0.0-"} : arg = WithVersion(v) => ~ret

\* C8: for an object with a non-empty string name, isPackageAuthor returns
\* true when email and url are each absent, null or a string, and false when
\* either is a number or another non-string, non-null value.
C8_AuthorOptionalTolerance ==
    (Done("isPackageAuthor") /\ IsObject(arg) /\ NonEmptyStr(Own(arg, "name")))
    => (ret <=> (OptionalString(Own(arg, "email")) /\ OptionalString(Own(arg, "url"))))

C8_Witness ==
    /\ Done("isPackageAuthor")
    /\ IsObject(arg)
    /\ NonEmptyStr(Own(arg, "name"))
    /\ Own(arg, "email").t = "string"
    /\ Own(arg, "url").t = "number"
    /\ ~ret

\* C9: in one isRemotePackage call on N versions and K tags the version map
\* is walked once in the first pass and re-walked once per tag checked, at
\* most K times; when the record is accepted isPackage has run on version
\* entries exactly N*(K+1) times.
C9_Revalidation ==
    (Done("isRemotePackage") /\ IsObject(arg)) =>
        LET N == IF IsObject(RVersions) THEN Len(RVersions.v) ELSE 0
            K == IF IsObject(RTags) THEN Len(RTags.v) ELSE 0
        IN  /\ CountEv(trace, IsFirstPassEv) <= N
            /\ CountEv(trace, IsTagEv) <= K
            /\ CountEv(trace, IsTagEv) > 0 => CountEv(trace, IsFirstPassEv) = N
            /\ CountEv(trace, IsRewalkEv) = N * CountEv(trace, IsWalkingTagEv)
            /\ ret => /\ CountEv(trace, IsTagEv) = K
                      /\ CountEv(trace, IsPkgEv) = N * (K + 1)

C9_Witness ==
    /\ Done("isRemotePackage")
    /\ ret
    /\ Len(RVersions.v) = 2
    /\ Len(RTags.v) = 2
    /\ CountEv(trace, IsPkgEv) = 6

\* the diagnostic of the first failing step among id, name and author
HeadStepLog(x) ==
    IF ~NonEmptyStr(Own(x, "id"))
    THEN <<"Invalid RemotePackage.id: expected string, got:">>
    ELSE IF ~NonEmptyStr(Own(x, "name"))
    THEN <<"Invalid RemotePackage.name: expected string, got:">>
    ELSE IF ~IsObject(Own(x, "author"))
    THEN <<"Invalid RemotePackage.author.">>
    ELSE IF ~isPackageAuthor(Own(x, "author")).ok
    THEN isPackageAuthor(Own(x, "author")).log \o <<"Invalid RemotePackage.author.">>
    ELSE <<>>

\* C10: isRemotePackage checks id, name, author, versions, tags in that
\* order and stops at the first failure; isTagValid is invoked only after
\* every entry of versions has passed isPackage in the first pass, so a tag
\* check never fails on an invalid manifest, only on an empty tag or a tag
\* that is not a key of versions.
C10_OrderAndShortCircuit ==
    (Done("isRemotePackage") /\ IsObject(arg)) =>
        /\ HeadStepLog(arg) # <<>> => (~ret /\ log = HeadStepLog(arg) /\ trace = <<>>)
        /\ \A p \in 1..Len(trace) :
              /\ IsRewalkEv(trace[p]) => trace[p].ok
              /\ IsTagEv(trace[p]) =>
                    /\ HeadStepLog(arg) = <<>>
                    /\ IsObject(RVersions)
                    /\ p > Len(RVersions.v)
                    /\ \A i \in 1..Len(RVersions.v) :
                          /\ IsFirstPassEv(trace[i])
                          /\ trace[i].key = RVersions.v[i][1]
                          /\ trace[i].ok
                    /\ ~trace[p].ok =>
                          (trace[p].key = "" \/ ~HasOwn(RVersions, trace[p].key))

C10_Witness ==
    /\ Done("isRemotePackage")
    /\ IsObject(arg)
    /\ IsObject(RVersions)
    /\ Len(RVersions.v) = 2
    /\ \E p \in 1..Len(trace) :
          IsTagEv(trace[p]) /\ ~trace[p].ok /\ trace[p].key = "9.9.9"
    /\ \E p \in 1..Len(trace) : IsTagEv(trace[p]) /\ trace[p].ok

=============================================================================
